---- MODULE Spec2Model ----
(***************************************************************************)
(* Model of surreal/model/ppo_net.py: the PPOModel wrapper (actor, critic, *)
(* optional observation z-filter, target synchronisation, forward passes)  *)
(* and the DiagGauss distribution utility.                                 *)
(***************************************************************************)
EXTENDS Integers, Sequences, FiniteSets, TLC

VARIABLES model, heap, last, synced, dg

vars == <<model, heap, last, synced, dg>>

(***************************************************************************)
(* Bounds of the model: the largest parameter value a training step        *)
(* writes, the largest z-filter count (and batch size), and the largest    *)
(* number of rows of a DiagGauss batch.                                    *)
(***************************************************************************)
MaxParam == 1
MaxCount == 1
MaxRows == 1

\* The obs_dim both models are constructed with.
ObsDim == 1

Models == {1, 2}
ObsVals == {1, 2}
ParamVals == 0..MaxParam

(***************************************************************************)
(* Objects.  A PPOModel holds references to an actor, a critic and, when   *)
(* use_z_filter is set, a z_filter; the objects' states live in the heap.  *)
(***************************************************************************)
NoAttr == <<0, "none">>
Ref(m, attr) == <<m, attr>>

\* PPOModel.__init__: the z_filter attribute exists only if use_z_filter.
NewModel(m, od, uz) ==
    [obs_dim |-> od,
     use_z_filter |-> uz,
     actor |-> Ref(m, "actor"),
     critic |-> Ref(m, "critic"),
     z_filter |-> IF uz THEN Ref(m, "z_filter") ELSE NoAttr]

HasAttr(mdl, m, attr) == mdl[m][attr] # NoAttr

\* A freshly constructed ZFilter: no observation seen yet.
NewZFilter(od) ==
    [count |-> 0,
     running_sum |-> [i \in 1..od |-> 0],
     running_sumsq |-> [i \in 1..od |-> 0]]

(***************************************************************************)
(* Tensors: a rank and nested sequences of values; size() is read off the  *)
(* data.                                                                   *)
(***************************************************************************)
Tensor1(k) == {[rank |-> 1, data |-> [i \in 1..k |-> 1]]}
Tensor2(n, k) == {[rank |-> 2, data |-> d] : d \in [1..n -> [1..k -> ObsVals]]}
Tensor3(n, k) == {[rank |-> 3, data |-> [r \in 1..n |-> [i \in 1..k |-> <<1>>]]]}

Size(t) ==
    IF t.rank = 1 THEN <<Len(t.data)>>
    ELSE IF t.rank = 2 THEN <<Len(t.data), Len(t.data[1])>>
    ELSE <<Len(t.data), Len(t.data[1]), Len(t.data[1][1])>>

\* Observation batches of shape (n, od); a batch never holds more rows than
\* the z-filter count is allowed to reach.
Batches(od) == UNION {Tensor2(n, od) : n \in 1..MaxCount}

\* Everything a caller may pass as obs: batches of the right shape, batches
\* whose second dimension is one more or one less, and tensors of rank 1 and 3.
ObsInputs(od) ==
    Batches(od)
        \cup {[rank |-> 2, data |-> [r \in 1..1 |-> [i \in 1..k |-> 1]]] :
                 k \in {od + 1, od - 1} \ {0}}
        \cup Tensor1(od) \cup Tensor3(1, od)

NoObs == [rank |-> 0, data |-> <<>>]
NoRet == [net |-> "none"]

(***************************************************************************)
(* Collaborators of PPOModel.                                              *)
(***************************************************************************)
RECURSIVE ColSum(_, _, _)
ColSum(rows, i, sq) ==
    IF rows = <<>> THEN 0
    ELSE (IF sq THEN rows[1][i] * rows[1][i] ELSE rows[1][i])
             + ColSum(Tail(rows), i, sq)

\* ZFilter.z_update: accumulate count, sum and sum of squares over the batch.
ZFilterUpdate(z, obs) ==
    [count |-> z.count + Len(obs.data),
     running_sum |-> [i \in DOMAIN z.running_sum |->
                         z.running_sum[i] + ColSum(obs.data, i, FALSE)],
     running_sumsq |-> [i \in DOMAIN z.running_sumsq |->
                         z.running_sumsq[i] + ColSum(obs.data, i, TRUE)]]

\* ZFilter.forward: (x - mean) / std, kept exact as the pair
\* <<count*x - sum, count*sumsq - sum^2>> (numerator, count^2 * variance).
ZFilterForward(z, obs) ==
    [rank |-> 2,
     data |-> [r \in DOMAIN obs.data |-> [i \in DOMAIN obs.data[r] |->
                 <<z.count * obs.data[r][i] - z.running_sum[i],
                   z.count * z.running_sumsq[i]
                       - z.running_sum[i] * z.running_sum[i]>>]]]

\* The networks are deterministic functions of their parameters and input.
ActorNet(params, x) == [net |-> "actor", params |-> params, input |-> x.data]
CriticNet(params, x) == [net |-> "critic", params |-> params, input |-> x.data]

\* torch state_dict / load_state_dict: a snapshot of the object's state, and
\* an in-place copy of a snapshot into the object.
StateDict(h, ref) == h[ref]
LoadStateDict(h, ref, sd) == [h EXCEPT ![ref] = sd]

(***************************************************************************)
(* Initial state: two models built with the same dimensions, each with its *)
(* own use_z_filter flag.                                                  *)
(***************************************************************************)
\* No DiagGauss call is in progress in the PPOModel specifications.
NoDG == [pc |-> "none"]

NoCall ==
    [op |-> "none", self |-> 0, net |-> 0, obs |-> NoObs, raised |-> "none",
     trace |-> <<>>, ret |-> NoRet, changed |-> {}]

Pairs == {p \in Models \X Models : p[1] # p[2]}

InitHeap(mdl) ==
    [r \in UNION {{mdl[m].actor, mdl[m].critic, mdl[m].z_filter} : m \in Models}
            \ {NoAttr} |->
        IF r[2] = "z_filter" THEN NewZFilter(ObsDim) ELSE 0]

Init ==
    /\ \E uz \in [Models -> BOOLEAN] :
           model = [m \in Models |-> NewModel(m, ObsDim, uz[m])]
    /\ heap = InitHeap(model)
    /\ last = NoCall
    /\ synced = [p \in Pairs |-> [params |-> FALSE, z |-> FALSE]]
    /\ dg = NoDG

(***************************************************************************)
(* State of a model as seen through its references.                        *)
(***************************************************************************)
ActorState(mdl, h, m) == h[mdl[m].actor]
CriticState(mdl, h, m) == h[mdl[m].critic]
\* What a model without a z_filter attribute has in place of running statistics.
NoZ == [count |-> -1, running_sum |-> <<>>, running_sumsq |-> <<>>]

ZState(mdl, h, m) ==
    IF HasAttr(mdl, m, "z_filter") THEN h[mdl[m].z_filter] ELSE NoZ

PartState(mdl, h, m, part) ==
    IF part = "actor" THEN ActorState(mdl, h, m)
    ELSE IF part = "critic" THEN CriticState(mdl, h, m)
    ELSE ZState(mdl, h, m)

Parts == {"actor", "critic", "z"}

\* The parts of the models whose state differs between two program states.
Changed(mdl1, h1, mdl2, h2) ==
    {x \in Models \X Parts :
        PartState(mdl1, h1, x[1], x[2]) # PartState(mdl2, h2, x[1], x[2])}

Call(op, self, net, obs, raised, trace, ret) ==
    [op |-> op, self |-> self, net |-> net, obs |-> obs, raised |-> raised,
     trace |-> trace, ret |-> ret]

\* Which pairs (target, source) have been synchronised by a completed call
\* and not had their parameters / running statistics changed since.
NextSynced(call, mdl2, h2) ==
    [p \in Pairs |->
        [params |->
            \/ /\ call.op = "update_target_params"
               /\ call.raised = "none"
               /\ <<call.self, call.net>> = p
            \/ /\ synced[p].params
               /\ \A m \in {p[1], p[2]} :
                      /\ ActorState(mdl2, h2, m) = ActorState(model, heap, m)
                      /\ CriticState(mdl2, h2, m) = CriticState(model, heap, m),
         z |->
            \/ /\ call.op = "update_target_z_filter"
               /\ call.raised = "none"
               /\ <<call.self, call.net>> = p
            \/ /\ synced[p].z
               /\ \A m \in {p[1], p[2]} :
                      ZState(mdl2, h2, m) = ZState(model, heap, m)]]

\* Bookkeeping common to every operation: the call record with the parts of
\* the models the call changed, and the synchronisation history.
Finish(call) ==
    /\ last' = [op |-> call.op, self |-> call.self, net |-> call.net,
                obs |-> call.obs, raised |-> call.raised, trace |-> call.trace,
                ret |-> call.ret,
                changed |-> Changed(model, heap, model', heap')]
    /\ synced' = NextSynced(call, model', heap')
    /\ UNCHANGED dg

(***************************************************************************)
(* PPOModel operations.                                                    *)
(***************************************************************************)
update_target_params_ActorOnly(self, net) ==
    /\ model' = model
    /\ heap' = LoadStateDict(heap, model[self].actor,
                             StateDict(heap, model[net].actor))
    /\ Finish(Call("update_target_params", self, net, NoObs, "none",
                   <<"net.actor.state_dict", "self.actor.load_state_dict">>,
                   NoRet))

update_target_params_Alias(self, net) ==
    /\ model' = [model EXCEPT ![self].actor = model[net].actor,
                              ![self].critic = model[net].critic]
    /\ heap' = heap
    /\ Finish(Call("update_target_params", self, net, NoObs, "none",
                   <<"net.actor", "net.critic">>, NoRet))

\* update_target_params: load the source's actor state into the actor, then
\* the source's critic state into the critic.
update_target_params(self, net) ==
    /\ model' = model
    /\ heap' = LET h1 == LoadStateDict(heap, model[self].actor,
                                       StateDict(heap, model[net].actor))
               IN  LoadStateDict(h1, model[self].critic,
                                 StateDict(h1, model[net].critic))
    /\ Finish(Call("update_target_params", self, net, NoObs, "none",
                   <<"net.actor.state_dict", "self.actor.load_state_dict",
                     "net.critic.state_dict", "self.critic.load_state_dict">>,
                   NoRet))

update_target_z_filter_Unguarded(self, net) ==
    /\ model' = model
    /\ IF HasAttr(model, self, "z_filter") /\ HasAttr(model, net, "z_filter")
       THEN /\ heap' = LoadStateDict(heap, model[self].z_filter,
                                     StateDict(heap, model[net].z_filter))
            /\ Finish(Call("update_target_z_filter", self, net, NoObs, "none",
                           <<"net.z_filter.state_dict",
                             "self.z_filter.load_state_dict">>, NoRet))
       ELSE /\ heap' = heap
            /\ Finish(Call("update_target_z_filter", self, net, NoObs,
                           "AttributeError",
                           IF HasAttr(model, self, "z_filter")
                           THEN <<"net.z_filter">> ELSE <<"self.z_filter">>,
                           NoRet))

update_target_z_filter_Skip(self, net) ==
    /\ model' = model
    /\ heap' = heap
    /\ Finish(Call("update_target_z_filter", self, net, NoObs, "none", <<>>,
                   NoRet))

\* update_target_z_filter: only when the receiver uses a z-filter; reading
\* net.z_filter on a source built without one is an AttributeError.
update_target_z_filter(self, net) ==
    /\ model' = model
    /\ IF model[self].use_z_filter
       THEN IF HasAttr(model, net, "z_filter")
            THEN /\ heap' = LoadStateDict(heap, model[self].z_filter,
                                          StateDict(heap, model[net].z_filter))
                 /\ Finish(Call("update_target_z_filter", self, net, NoObs, "none",
                                <<"net.z_filter.state_dict",
                                  "self.z_filter.load_state_dict">>, NoRet))
            ELSE /\ heap' = heap
                 /\ Finish(Call("update_target_z_filter", self, net, NoObs,
                                "AttributeError", <<"net.z_filter">>, NoRet))
       ELSE /\ heap' = heap
            /\ Finish(Call("update_target_z_filter", self, net, NoObs, "none",
                           <<>>, NoRet))

ForwardActor_AssertLate(mdl, h, self, obs) ==
    LET shape == Size(obs) IN
    IF ~(Len(shape) = 2 /\ shape[2] = mdl[self].obs_dim)
    THEN [raised |-> "AssertionError",
          trace |-> IF mdl[self].use_z_filter THEN <<"z_filter.forward">>
                    ELSE <<>>,
          ret |-> NoRet]
    ELSE IF mdl[self].use_z_filter
         THEN [raised |-> "none",
               trace |-> <<"z_filter.forward", "actor">>,
               ret |-> ActorNet(h[mdl[self].actor],
                                ZFilterForward(h[mdl[self].z_filter], obs))]
         ELSE [raised |-> "none",
               trace |-> <<"actor">>,
               ret |-> ActorNet(h[mdl[self].actor], obs)]

\* forward_actor as a function of the current state: what it raises, which
\* collaborators it invokes, and what it returns.
ForwardActor(mdl, h, self, obs) ==
    LET shape == Size(obs) IN
    IF ~(Len(shape) = 2 /\ shape[2] = mdl[self].obs_dim)
    THEN [raised |-> "AssertionError", trace |-> <<>>, ret |-> NoRet]
    ELSE IF mdl[self].use_z_filter
         THEN [raised |-> "none",
               trace |-> <<"z_filter.forward", "actor">>,
               ret |-> ActorNet(h[mdl[self].actor],
                                ZFilterForward(h[mdl[self].z_filter], obs))]
         ELSE [raised |-> "none",
               trace |-> <<"actor">>,
               ret |-> ActorNet(h[mdl[self].actor], obs)]

ForwardCritic(mdl, h, self, obs) ==
    LET shape == Size(obs) IN
    IF ~(Len(shape) = 2 /\ shape[2] = mdl[self].obs_dim)
    THEN [raised |-> "AssertionError", trace |-> <<>>, ret |-> NoRet]
    ELSE IF mdl[self].use_z_filter
         THEN [raised |-> "none",
               trace |-> <<"z_filter.forward", "critic">>,
               ret |-> CriticNet(h[mdl[self].critic],
                                 ZFilterForward(h[mdl[self].z_filter], obs))]
         ELSE [raised |-> "none",
               trace |-> <<"critic">>,
               ret |-> CriticNet(h[mdl[self].critic], obs)]

forward_actor(self, obs) ==
    /\ model' = model
    /\ heap' = heap
    /\ LET r == ForwardActor(model, heap, self, obs)
       IN  Finish(Call("forward_actor", self, 0, obs, r.raised, r.trace, r.ret))

forward_critic(self, obs) ==
    /\ model' = model
    /\ heap' = heap
    /\ LET r == ForwardCritic(model, heap, self, obs)
       IN  Finish(Call("forward_critic", self, 0, obs, r.raised, r.trace, r.ret))

z_update_Silent(self, obs) ==
    /\ model' = model
    /\ IF model[self].use_z_filter
       THEN /\ heap' = [heap EXCEPT ![model[self].z_filter] =
                            ZFilterUpdate(heap[model[self].z_filter], obs)]
            /\ Finish(Call("z_update", self, 0, obs, "none",
                           <<"z_filter.z_update">>, NoRet))
       ELSE /\ heap' = heap
            /\ Finish(Call("z_update", self, 0, obs, "none", <<>>, NoRet))

\* z_update: delegate to the z-filter, or raise ValueError without one.
z_update(self, obs) ==
    /\ model' = model
    /\ IF model[self].use_z_filter
       THEN /\ heap' = [heap EXCEPT ![model[self].z_filter] =
                            ZFilterUpdate(heap[model[self].z_filter], obs)]
            /\ Finish(Call("z_update", self, 0, obs, "none",
                           <<"z_filter.z_update">>, NoRet))
       ELSE /\ heap' = heap
            /\ Finish(Call("z_update", self, 0, obs, "ValueError", <<>>, NoRet))

\* A training step outside PPOModel rewrites the parameters of one network
\* in place.
ParamUpdate(m, attr, v) ==
    /\ heap[model[m][attr]] # v
    /\ model' = model
    /\ heap' = [heap EXCEPT ![model[m][attr]] = v]
    /\ Finish(Call("param_update", m, 0, NoObs, "none", <<>>, NoRet))

\* Observations a caller passes to z_update: batches of the model's shape
\* when a z-filter consumes them, anything when the call is rejected.
ZUpdateInputs(m) ==
    IF model[m].use_z_filter
    THEN {o \in Batches(model[m].obs_dim) :
              heap[model[m].z_filter].count + Len(o.data) <= MaxCount}
    ELSE ObsInputs(model[m].obs_dim)

(***************************************************************************)
(* Specifications.  The forward passes change no state of the models, so   *)
(* the synchronisation behaviour is explored without them (SpecSync) and   *)
(* the forward passes over the states z_update builds (SpecForward).       *)
(***************************************************************************)
NextSync ==
    \/ \E p \in Pairs : update_target_params(p[1], p[2])
    \/ \E p \in Pairs : update_target_z_filter(p[1], p[2])
    \/ \E self \in Models : \E obs \in ZUpdateInputs(self) : z_update(self, obs)
    \/ \E m \in Models, attr \in {"actor", "critic"}, v \in ParamVals :
           ParamUpdate(m, attr, v)

SpecSync == Init /\ [][NextSync]_vars

NextForward ==
    \/ \E self \in Models : \E obs \in ObsInputs(model[self].obs_dim) :
           forward_actor(self, obs)
    \/ \E self \in Models : \E obs \in ObsInputs(model[self].obs_dim) :
           forward_critic(self, obs)
    \/ \E self \in Models : \E obs \in ZUpdateInputs(self) : z_update(self, obs)

SpecForward == Init /\ [][NextForward]_vars

(***************************************************************************)
(* Exact arithmetic for DiagGauss.  A rational is <<numerator,             *)
(* denominator>> in lowest terms; a real is a rational combination         *)
(* q + l2*ln(2) + lp*ln(2*pi), which is closed under the operations the    *)
(* code applies to means, actions and standard deviations that are powers  *)
(* of two.                                                                 *)
(***************************************************************************)
Abs(x) == IF x < 0 THEN -x ELSE x

RECURSIVE GCD(_, _)
GCD(x, y) == IF y = 0 THEN x ELSE GCD(y, x % y)

RatNorm(n, d) ==
    LET s == IF d < 0 THEN -1 ELSE 1
        g == GCD(Abs(n), Abs(d))
    IN  <<(s * n) \div g, (s * d) \div g>>

Rat(n) == <<n, 1>>
RatAdd(x, y) == RatNorm(x[1] * y[2] + y[1] * x[2], x[2] * y[2])
RatSub(x, y) == RatNorm(x[1] * y[2] - y[1] * x[2], x[2] * y[2])
RatMul(x, y) == RatNorm(x[1] * y[1], x[2] * y[2])
RatDiv(x, y) == RatNorm(x[1] * y[2], x[2] * y[1])
RatPow2(x) == RatMul(x, x)

Real(q, l2, lp) == [q |-> q, l2 |-> l2, lp |-> lp]
RealOfRat(x) == Real(x, Rat(0), Rat(0))
RealAdd(x, y) == Real(RatAdd(x.q, y.q), RatAdd(x.l2, y.l2), RatAdd(x.lp, y.lp))
RealSub(x, y) == Real(RatSub(x.q, y.q), RatSub(x.l2, y.l2), RatSub(x.lp, y.lp))
RealScale(c, x) == Real(RatMul(c, x.q), RatMul(c, x.l2), RatMul(c, x.lp))

\* The exponent k of a rational 2^k.
RECURSIVE Log2(_)
Log2(x) ==
    IF x = Rat(1) THEN 0
    ELSE IF x[1] > x[2] THEN 1 + Log2(RatDiv(x, Rat(2)))
    ELSE Log2(RatMul(x, Rat(2))) - 1

\* Natural logarithm of a power of two, and the constants np.log(2*pi) and
\* np.log(2*pi*e).
Log(x) == Real(Rat(0), Rat(Log2(x)), Rat(0))
LogTwoPi == Real(Rat(0), Rat(0), Rat(1))
LogTwoPiE == Real(Rat(1), Rat(0), Rat(1))

RECURSIVE SumRat(_)
SumRat(xs) == IF xs = <<>> THEN Rat(0) ELSE RatAdd(xs[1], SumRat(Tail(xs)))

RECURSIVE SumReal(_)
SumReal(xs) ==
    IF xs = <<>> THEN RealOfRat(Rat(0)) ELSE RealAdd(xs[1], SumReal(Tail(xs)))

\* Decimal value of a real in thousandths, for comparisons against thresholds.
Ln2Milli == 693
Ln2PiMilli == 1838
Milli(x) ==
    (x.q[1] * 1000) \div x.q[2]
        + (x.l2[1] * Ln2Milli) \div x.l2[2]
        + (x.lp[1] * Ln2PiMilli) \div x.lp[2]

(***************************************************************************)
(* Floating-point results of exp: a positive number kept by its logarithm, *)
(* or zero when the argument is below ln(2^-150) = -103.972, where a    *)
(* float32 (torch's default tensor type) rounds to zero.                   *)
(* ln(1e-5) = -11.513.                                                  *)
(***************************************************************************)
LnEpsMilli == -11513
ExpUnderflowMilli == -103972

Zero == [kind |-> "zero"]
Eps == [kind |-> "eps"]
Pos(ln) == [kind |-> "pos", ln |-> ln]

Exp(x) == IF Milli(x) < ExpUnderflowMilli THEN Zero ELSE Pos(x)

\* v < 1e-5
BelowEps(v) ==
    \/ v.kind = "zero"
    \/ v.kind = "pos" /\ Milli(v.ln) < LnEpsMilli

\* torch.clamp(v, min=1e-5)
ClampMinEps(v) == IF BelowEps(v) THEN Eps ELSE v

(***************************************************************************)
(* DiagGauss.  prob is a batch of rows, each the mean segment followed by  *)
(* the std segment.                                                        *)
(***************************************************************************)
MeanSeg(d, row) == SubSeq(row, 1, d)
StdSeg(d, row) == SubSeq(row, d + 1, Len(row))

LogLikelihood(d, a, prob) ==
    [r \in DOMAIN prob |->
        LET mean0 == MeanSeg(d, prob[r])
            std0 == StdSeg(d, prob[r])
            sq == [i \in DOMAIN std0 |->
                      RatPow2(RatDiv(RatSub(a[r][i], mean0[i]), std0[i]))]
            logs == [i \in DOMAIN std0 |-> Log(std0[i])]
        IN  RealSub(RealSub(RealScale(<<-1, 2>>, RealOfRat(SumRat(sq))),
                            RealScale(RatMul(<<1, 2>>, Rat(d)), LogTwoPi)),
                    SumReal(logs))]

Likelihood_NoClamp(d, a, prob) ==
    LET ll == LogLikelihood(d, a, prob)
    IN  [r \in DOMAIN ll |-> Exp(ll[r])]

Likelihood(d, a, prob) ==
    LET ll == LogLikelihood(d, a, prob)
    IN  [r \in DOMAIN ll |-> ClampMinEps(Exp(ll[r]))]

Kl_Reversed(d, prob0, prob1) ==
    [r \in DOMAIN prob0 |->
        LET mean0 == MeanSeg(d, prob1[r])
            std0 == StdSeg(d, prob1[r])
            mean1 == MeanSeg(d, prob0[r])
            std1 == StdSeg(d, prob0[r])
            logs == [i \in DOMAIN std0 |-> Log(RatDiv(std1[i], std0[i]))]
            quad == [i \in DOMAIN std0 |->
                        RatDiv(RatAdd(RatPow2(std0[i]),
                                      RatPow2(RatSub(mean0[i], mean1[i]))),
                               RatMul(Rat(2), RatPow2(std1[i])))]
        IN  RealSub(RealAdd(SumReal(logs), RealOfRat(SumRat(quad))),
                    RealOfRat(RatMul(<<1, 2>>, Rat(d))))]

Kl(d, prob0, prob1) ==
    [r \in DOMAIN prob0 |->
        LET mean0 == MeanSeg(d, prob0[r])
            std0 == StdSeg(d, prob0[r])
            mean1 == MeanSeg(d, prob1[r])
            std1 == StdSeg(d, prob1[r])
            logs == [i \in DOMAIN std0 |-> Log(RatDiv(std1[i], std0[i]))]
            quad == [i \in DOMAIN std0 |->
                        RatDiv(RatAdd(RatPow2(std0[i]),
                                      RatPow2(RatSub(mean0[i], mean1[i]))),
                               RatMul(Rat(2), RatPow2(std1[i])))]
        IN  RealSub(RealAdd(SumReal(logs), RealOfRat(SumRat(quad))),
                    RealOfRat(RatMul(<<1, 2>>, Rat(d))))]

Entropy(d, prob) ==
    [r \in DOMAIN prob |->
        LET std_nd == StdSeg(d, prob[r])
            logs == [i \in DOMAIN std_nd |-> Log(std_nd[i])]
        IN  RealAdd(RealScale(<<1, 2>>, SumReal(logs)),
                    RealScale(RatMul(<<1, 2>>, Rat(d)), LogTwoPiE))]

Sample_SegmentsSwapped(d, prob, noise) ==
    [r \in DOMAIN prob |->
        LET mean_nd == StdSeg(d, prob[r])
            std_nd == MeanSeg(d, prob[r])
        IN  [i \in 1..d |-> RatAdd(RatMul(noise[r][i], std_nd[i]), mean_nd[i])]]

\* noise is the (rows, d) array np.random.randn returned.
Sample(d, prob, noise) ==
    [r \in DOMAIN prob |->
        LET mean_nd == MeanSeg(d, prob[r])
            std_nd == StdSeg(d, prob[r])
        IN  [i \in 1..d |-> RatAdd(RatMul(noise[r][i], std_nd[i]), mean_nd[i])]]

MaxProb(d, prob) == [r \in DOMAIN prob |-> MeanSeg(d, prob[r])]

(***************************************************************************)
(* Inputs of the DiagGauss calls.                                          *)
(***************************************************************************)
ActionDims == {1, 2}
MeanVals == {Rat(0), Rat(1)}
StdVals == {<<1, 2>>, Rat(2)}
ActVals == {Rat(0), Rat(20)}
NoiseVals == {Rat(0), Rat(1)}

ProbRows(d) ==
    {means \o stds : means \in [1..d -> MeanVals], stds \in [1..d -> StdVals]}
Probs(d, n) == [1..n -> ProbRows(d)]
Acts(d, n) == [1..n -> [1..d -> ActVals]]
Noises(d, n) == [1..n -> [1..d -> NoiseVals]]

None == <<>>

DGCall(d, op, a, prob0, prob1, noise) ==
    [pc |-> "called", d |-> d, op |-> op, a |-> a, prob0 |-> prob0,
     prob1 |-> prob1, noise |-> noise, out |-> None]

\* The pending call on a DiagGauss(d): the operation and its arguments, a
\* batch of n rows.
DGPending(d, n) ==
    \/ \E op \in {"loglikelihood", "likelihood"} :
           \E a \in Acts(d, n), p \in Probs(d, n) :
               dg = DGCall(d, op, a, p, None, None)
    \/ \E p0 \in Probs(d, n), p1 \in Probs(d, n) :
           dg = DGCall(d, "kl", None, p0, p1, None)
    \/ \E op \in {"entropy", "maxprob", "sample"} :
           \E p \in Probs(d, n) : dg = DGCall(d, op, None, p, None, None)

InitDG ==
    /\ model = [m \in Models |-> NewModel(m, ObsDim, FALSE)]
    /\ heap = InitHeap(model)
    /\ last = NoCall
    /\ synced = [p \in Pairs |-> [params |-> FALSE, z |-> FALSE]]
    /\ \E d \in ActionDims, n \in 1..MaxRows : DGPending(d, n)

Return(out) ==
    /\ dg' = [dg EXCEPT !.pc = "returned", !.out = out]
    /\ UNCHANGED <<model, heap, last, synced>>

loglikelihood ==
    /\ dg.pc = "called" /\ dg.op = "loglikelihood"
    /\ Return(LogLikelihood(dg.d, dg.a, dg.prob0))

likelihood ==
    /\ dg.pc = "called" /\ dg.op = "likelihood"
    /\ Return(Likelihood(dg.d, dg.a, dg.prob0))

kl ==
    /\ dg.pc = "called" /\ dg.op = "kl"
    /\ Return(Kl(dg.d, dg.prob0, dg.prob1))

entropy ==
    /\ dg.pc = "called" /\ dg.op = "entropy"
    /\ Return(Entropy(dg.d, dg.prob0))

\* sample draws its noise when it runs.
sample ==
    /\ dg.pc = "called" /\ dg.op = "sample"
    /\ \E noise \in Noises(dg.d, Len(dg.prob0)) :
           /\ dg' = [dg EXCEPT !.pc = "returned", !.noise = noise,
                               !.out = Sample(dg.d, dg.prob0, noise)]
           /\ UNCHANGED <<model, heap, last, synced>>

maxprob ==
    /\ dg.pc = "called" /\ dg.op = "maxprob"
    /\ Return(MaxProb(dg.d, dg.prob0))

NextDG ==
    \/ loglikelihood
    \/ likelihood
    \/ kl
    \/ entropy
    \/ sample
    \/ maxprob

SpecDG == InitDG /\ [][NextDG]_vars

(***************************************************************************)
(* Properties of PPOModel.                                                 *)
(***************************************************************************)
ForwardOps == {"forward_actor", "forward_critic"}

\* C1: z_update on a model built without a z-filter raises ValueError and
\* changes nothing; on a model built with one it does not raise, replaces the
\* running statistics by the statistics updated with obs, and leaves the
\* actor and critic parameters alone.
C1_ZUpdateRaisesOrUpdates ==
    [][last'.op = "z_update" =>
          LET self == last'.self IN
          IF ~model[self].use_z_filter
          THEN /\ last'.raised = "ValueError"
               /\ heap' = heap
               /\ model' = model
          ELSE /\ last'.raised = "none"
               /\ ZState(model', heap', self)
                      = ZFilterUpdate(ZState(model, heap, self), last'.obs)
               /\ ActorState(model', heap', self) = ActorState(model, heap, self)
               /\ CriticState(model', heap', self) = CriticState(model, heap, self)
    ]_vars

\* A z_update rejected with ValueError on a model without a z-filter, while
\* the other model has accumulated statistics through its own z_update.
C1_Witness ==
    /\ last.op = "z_update"
    /\ last.raised = "ValueError"
    /\ ~model[last.self].use_z_filter
    /\ \E m \in Models : model[m].use_z_filter /\ ZState(model, heap, m).count > 0

\* C2: a forward pass on an obs that is not of shape (n, obs_dim) fails with
\* an assertion error before the z-filter or the network is invoked; on an
\* obs of shape (n, obs_dim) the assertion passes and the pass ends in the
\* actor (forward_actor) or critic (forward_critic) network.
C2_ForwardShapeAssert ==
    last.op \in ForwardOps =>
        LET od == model[last.self].obs_dim
            network == IF last.op = "forward_actor" THEN "actor" ELSE "critic"
            batch == /\ last.obs.rank = 2
                     /\ \A r \in DOMAIN last.obs.data : Len(last.obs.data[r]) = od
        IN  IF batch
            THEN /\ last.raised = "none"
                 /\ last.trace # <<>>
                 /\ last.trace[Len(last.trace)] = network
                 /\ last.ret.net = network
            ELSE /\ last.raised = "AssertionError"
                 /\ last.trace = <<>>
                 /\ last.ret = NoRet

\* forward_actor refused a rank-2 obs whose second dimension is wrong, on a
\* model that would otherwise have normalised it.
C2_Witness ==
    /\ last.op = "forward_actor"
    /\ last.raised = "AssertionError"
    /\ last.obs.rank = 2
    /\ model[last.self].use_z_filter

\* C3: after update_target_params the target's actor and critic parameter
\* states equal the source's.
C3_TargetParamsEqualSource ==
    (last.op = "update_target_params" /\ last.raised = "none") =>
        /\ ActorState(model, heap, last.self) = ActorState(model, heap, last.net)
        /\ CriticState(model, heap, last.self) = CriticState(model, heap, last.net)

\* update_target_params overwrote actor and critic parameters that both
\* differed from the source's.
C3_Witness ==
    /\ last.op = "update_target_params"
    /\ <<last.self, "actor">> \in last.changed
    /\ <<last.self, "critic">> \in last.changed

\* C4: update_target_z_filter on a receiver without normalization changes
\* nothing, reads nothing of the source and does not raise; on a receiver
\* with normalization a call that returns leaves the receiver's running
\* statistics equal to the source's and nothing else changed.
C4_ZFilterCopiedOnlyIfEnabled ==
    last.op = "update_target_z_filter" =>
        IF model[last.self].use_z_filter
        THEN last.raised = "none" =>
                 /\ ZState(model, heap, last.self) = ZState(model, heap, last.net)
                 /\ last.changed \subseteq {<<last.self, "z">>}
        ELSE /\ last.raised = "none"
             /\ last.trace = <<>>
             /\ last.changed = {}

\* update_target_z_filter replaced the statistics of a receiver that uses
\* normalization.
C4_Witness ==
    /\ last.op = "update_target_z_filter"
    /\ model[last.self].use_z_filter
    /\ <<last.self, "z">> \in last.changed
    /\ ZState(model, heap, last.self).count > 0

\* C9: for two models with the same use_z_filter setting, once both
\* update_target_params and update_target_z_filter have completed from the
\* source to the target and no parameter or running statistic of either has
\* changed since, forward_actor and forward_critic give the same result on
\* both for every obs of shape (n, obs_dim).
C9_SyncedForwardEqual ==
    \A p \in Pairs :
        (/\ model[p[1]].use_z_filter = model[p[2]].use_z_filter
         /\ synced[p].params
         /\ synced[p].z) =>
            \A obs \in Batches(model[p[1]].obs_dim) :
                /\ ForwardActor(model, heap, p[1], obs)
                       = ForwardActor(model, heap, p[2], obs)
                /\ ForwardCritic(model, heap, p[1], obs)
                       = ForwardCritic(model, heap, p[2], obs)

\* Both synchronisations are in force on two normalising models, the last of
\* them the parameter copy, with trained parameters and non-empty statistics.
C9_Witness ==
    /\ last.op = "update_target_params"
    /\ synced[<<last.self, last.net>>].params
    /\ synced[<<last.self, last.net>>].z
    /\ model[last.self].use_z_filter
    /\ model[last.net].use_z_filter
    /\ ZState(model, heap, last.net).count > 0
    /\ ActorState(model, heap, last.net) # 0
    /\ CriticState(model, heap, last.net) # 0
    /\ last.changed # {}

\* C10: update_target_params changes only the receiver's actor and critic,
\* update_target_z_filter only the receiver's running statistics, and
\* z_update or a parameter change on one model changes no state of the other.
C10_DisjointCopies ==
    /\ last.op = "update_target_params" =>
           last.changed \subseteq {<<last.self, "actor">>, <<last.self, "critic">>}
    /\ last.op = "update_target_z_filter" =>
           last.changed \subseteq {<<last.self, "z">>}
    /\ last.op \in {"z_update", "param_update"} =>
           last.changed \subseteq {last.self} \X Parts

\* The receiver holds a parameter copy of a source that then updates its own
\* running statistics; the receiver's statistics stay what they were.
C10_Witness ==
    /\ last.op = "z_update"
    /\ last.raised = "none"
    /\ \E t \in Models \ {last.self} :
           /\ synced[<<t, last.self>>].params
           /\ model[t].use_z_filter
           /\ ZState(model, heap, t) # ZState(model, heap, last.self)
           /\ ActorState(model, heap, t) # 0

(***************************************************************************)
(* Properties of DiagGauss.                                                *)
(***************************************************************************)
Returned(op) == dg.pc = "returned" /\ dg.op = op

\* Entries of row r of prob0: the mean and the std of dimension i.
Mean0(r, i) == dg.prob0[r][i]
Std0(r, i) == dg.prob0[r][dg.d + i]
Mean1(r, i) == dg.prob1[r][i]
Std1(r, i) == dg.prob1[r][dg.d + i]

\* C5: entropy(prob) is, per row, the sum over the d dimensions of log(std_i)
\* plus (d/2)*log(2*pi*e).
C5_EntropyClosedForm ==
    Returned("entropy") =>
        \A r \in DOMAIN dg.prob0 :
            dg.out[r] = RealAdd(SumReal([i \in 1..dg.d |-> Log(Std0(r, i))]),
                                RealScale(<<dg.d, 2>>, LogTwoPiE))

\* C6: kl(prob0, prob1) is, per row, the sum over the d dimensions of
\* log(std1/std0) + (std0^2 + (mean0 - mean1)^2) / (2*std1^2), minus d/2;
\* and kl(prob, prob) = 0.
C6_KlClosedForm ==
    Returned("kl") =>
        \A r \in DOMAIN dg.prob0 :
            /\ dg.out[r] =
                   RealSub(
                       SumReal([i \in 1..dg.d |->
                           RealAdd(
                               Log(RatDiv(Std1(r, i), Std0(r, i))),
                               RealOfRat(
                                   RatDiv(
                                       RatAdd(RatMul(Std0(r, i), Std0(r, i)),
                                              RatMul(RatSub(Mean0(r, i), Mean1(r, i)),
                                                     RatSub(Mean0(r, i), Mean1(r, i)))),
                                       RatMul(Rat(2),
                                              RatMul(Std1(r, i), Std1(r, i))))))]),
                       RealOfRat(<<dg.d, 2>>))
            /\ dg.prob0[r] = dg.prob1[r] => dg.out[r] = RealOfRat(Rat(0))

\* kl of two different distributions whose value changes when the arguments
\* are exchanged.
C6_Witness ==
    /\ Returned("kl")
    /\ dg.d = 2
    /\ dg.prob0 # dg.prob1
    /\ \E r \in DOMAIN dg.prob0 : dg.out[r] # Kl(dg.d, dg.prob1, dg.prob0)[r]

\* C7: likelihood(a, prob) is never zero and never below 1e-5; it is
\* exp(loglikelihood(a, prob)) whenever that is at least 1e-5, and 1e-5
\* otherwise.
C7_LikelihoodFloored ==
    Returned("likelihood") =>
        \A r \in DOMAIN dg.prob0 :
            LET e == Exp(LogLikelihood(dg.d, dg.a, dg.prob0)[r]) IN
            /\ dg.out[r] # Zero
            /\ ~BelowEps(dg.out[r])
            /\ ~BelowEps(e) => dg.out[r] = e
            /\ BelowEps(e) => dg.out[r] = Eps

\* A likelihood whose exponential underflows to zero and is returned as 1e-5.
C7_Witness ==
    /\ Returned("likelihood")
    /\ \E r \in DOMAIN dg.prob0 :
           /\ Exp(LogLikelihood(dg.d, dg.a, dg.prob0)[r]) = Zero
           /\ dg.out[r] = Eps

\* C8: sample(prob) returns one row of d components per row of prob, each
\* mean_i + noise_i * std_i with its own noise value; with all noise 0 the
\* sample is maxprob(prob).
C8_SampleMeanPlusNoiseStd ==
    Returned("sample") =>
        /\ DOMAIN dg.out = DOMAIN dg.prob0
        /\ DOMAIN dg.noise = DOMAIN dg.prob0
        /\ \A r \in DOMAIN dg.prob0 :
               /\ DOMAIN dg.out[r] = 1..dg.d
               /\ DOMAIN dg.noise[r] = 1..dg.d
               /\ \A i \in 1..dg.d :
                      dg.out[r][i] = RatAdd(Mean0(r, i),
                                           RatMul(dg.noise[r][i], Std0(r, i)))
        /\ (\A r \in DOMAIN dg.noise : \A i \in 1..dg.d : dg.noise[r][i] = Rat(0))
               => dg.out = MaxProb(dg.d, dg.prob0)

\* A two-dimensional sample whose components drew different noise values and
\* whose mean and std segments differ.
C8_Witness ==
    /\ Returned("sample")
    /\ dg.d = 2
    /\ dg.noise[1][1] # dg.noise[1][2]
    /\ dg.out # MaxProb(dg.d, dg.prob0)
    /\ MeanSeg(dg.d, dg.prob0[1]) # StdSeg(dg.d, dg.prob0[1])

====
